---- MODULE Spec2Model ----
(***************************************************************************)
(* State-machine model of the isa-chat front end: the ChatService message  *)
(* queue (services/chat.ts), the Bedrock collaborator (services/bedrock.ts)*)
(* and the Redux chat and ui slices (store/features/chatSlice.ts and       *)
(* uiSlice.ts, found in main.tsx), the attachment pipeline                 *)
(* (services/fileHandler.ts) and the web search (services/webSearch.ts).   *)
(*                                                                         *)
(* JavaScript runs one job at a time; an async function runs synchronously *)
(* up to its next await.  Every action below is one such synchronous run:  *)
(* a call from outside (sendMessage, a dispatched store action), or the    *)
(* resumption of a suspended async function.                               *)
(***************************************************************************)
EXTENDS Integers, Sequences, FiniteSets, TLC

\* ------------------------------------------------------------------ bounds
MaxSubmissions == 3        \* calls of ChatService.sendMessage
MaxClock == 1              \* Date.now() ranges over 0..MaxClock
MaxDispatches == 2         \* chatSlice actions dispatched by the user interface
MESSAGE_MAX_LENGTH == 1    \* import.meta.env.VITE_MESSAGE_MAX_LENGTH
MAX_FILE_SIZE == 4         \* import.meta.env.VITE_MAX_FILE_SIZE, in bytes
MaxFiles == 2              \* object URLs created by FileHandlerService
MaxSearches == 3           \* calls of WebSearchService.search
MaxTicks == 1              \* milliseconds that pass in a row between searches
MaxRaw == 7                \* results in one answer of the search collaborator

Requests == 1..MaxSubmissions

\* A message content of n characters.
Text(n) == [i \in 1..n |-> "x"]

\* Contents at the maximum length and one character above it.
Contents == {Text(MESSAGE_MAX_LENGTH), Text(MESSAGE_MAX_LENGTH + 1)}

\* options of sendMessage: webSearch flag, whether attachments has files
Options == [webSearch : BOOLEAN, attachments : BOOLEAN]

\* what fetch can do in BedrockService.processMessage
FetchOutcomes == {"ok", "notOk", "networkError"}

NoChat == [id |-> -1, messages |-> <<>>]     \* currentChat: null
NoError == "null"                            \* error: null
NoId == -1                                   \* payload without an id
NoOptions == [webSearch |-> FALSE, attachments |-> FALSE]

MsgTooLong == "El mensaje excede la longitud maxima permitida"
MsgProcessing == "Error al procesar el mensaje"
Completion == <<"c">>                        \* response.completion

VARIABLES
    currentChat,     \* chat.currentChat
    chatHistory,     \* chat.chatHistory
    isLoading,       \* chat.isLoading
    error,           \* chat.error
    notifications,   \* ui.notifications
    messageQueue,    \* ChatService.messageQueue (closures, named by request)
    isProcessing,    \* ChatService.isProcessing
    now,             \* Date.now()
    pc,              \* where each request's closure / queue step stands
    options,         \* the options each live closure has captured
    sent,            \* the turns of the model call in flight for a request
    submitted,       \* history: content of each sendMessage call, in order
    started,         \* history: requests in the order their closure started
    prior,           \* history: turns of the current chat when a request
                     \*          started, kept while the request executes
    sendPromise,     \* the promise each sendMessage call returned
    unhandled,       \* a promise of processQueue was rejected (nothing awaits it)
    failed,          \* history: requests whose fetch did not answer ok
    inCurrent,       \* history: requests whose user message went to the chat
                     \*          that has been the current chat ever since
    dispatched,      \* history: number of chatSlice actions the interface sent
    chatLog,         \* history: for each chat id, the messages addMessage has
                     \*          appended to the chat of that id, in order
    file,            \* the File that processFile is called with
    filePc,          \* where that processFile call stands
    fileResult,      \* how the call ended: an Attachment or the error thrown
    bytesRead,       \* history: whether the call asked for the bytes of the
                     \*   file ("asked"), and got them ("read") or not ("failed")
    thumbnail,       \* the canvas of createImageThumbnail, in the step that
                     \*   draws it (a local of the handler)
    objectUrls,      \* the object URLs of the document that are live
    urlsCreated,     \* number of URL.createObjectURL calls so far
    released,        \* history: the urls releaseFile was called with
    lastRelease,     \* history: the last releaseFile call and what it did
    cache,           \* WebSearchService.cache
    calls,           \* the calls of WebSearchService.search
    fetchCount,      \* history: number of requests sent to the search collaborator
    answered,        \* history: the last answer to each query, its time, and
                     \*          whether the request had failed
    raw,             \* the results handed to processResults
    processed        \* what processResults returned for them

chatVars == <<currentChat, chatHistory, isLoading, error, notifications,
              messageQueue, isProcessing, now, pc, options, sent, submitted,
              started, prior, sendPromise, unhandled, failed, inCurrent,
              dispatched, chatLog>>

fileVars == <<file, filePc, fileResult, bytesRead, thumbnail, objectUrls,
              urlsCreated, released, lastRelease>>

searchVars == <<cache, calls, fetchCount, answered, raw, processed>>

vars == <<chatVars, fileVars, searchVars>>

\* The state as one record, so that reducers and methods are functions on it.
Cur == [currentChat |-> currentChat, chatHistory |-> chatHistory,
        isLoading |-> isLoading, error |-> error,
        notifications |-> notifications, messageQueue |-> messageQueue,
        isProcessing |-> isProcessing, now |-> now, pc |-> pc,
        options |-> options, sent |-> sent,
        submitted |-> submitted, started |-> started, prior |-> prior,
        sendPromise |-> sendPromise, unhandled |-> unhandled,
        failed |-> failed, inCurrent |-> inCurrent,
        dispatched |-> dispatched, chatLog |-> chatLog]

Set(S) ==
    /\ currentChat' = S.currentChat
    /\ chatHistory' = S.chatHistory
    /\ isLoading' = S.isLoading
    /\ error' = S.error
    /\ notifications' = S.notifications
    /\ messageQueue' = S.messageQueue
    /\ isProcessing' = S.isProcessing
    /\ now' = S.now
    /\ pc' = S.pc
    /\ options' = S.options
    /\ sent' = S.sent
    /\ submitted' = S.submitted
    /\ started' = S.started
    /\ prior' = S.prior
    /\ sendPromise' = S.sendPromise
    /\ unhandled' = S.unhandled
    /\ failed' = S.failed
    /\ inCurrent' = S.inCurrent
    /\ dispatched' = S.dispatched
    /\ chatLog' = S.chatLog
    /\ UNCHANGED <<fileVars, searchVars>>

\* ------------------------------------------------------------ chatSlice
createChat(S) ==
    LET newChat == [id |-> S.now, messages |-> <<>>]
    IN  [S EXCEPT !.currentChat = newChat,
                  !.chatHistory = <<newChat>> \o @,
                  !.chatLog[newChat.id] = <<>>]

\* chatHistory.find(c => c.id === id): the first match
setCurrentChat(S, id) ==
    LET hits == {i \in 1..Len(S.chatHistory) : S.chatHistory[i].id = id}
    IN  IF hits # {}
        THEN [S EXCEPT !.currentChat =
                  S.chatHistory[CHOOSE i \in hits : \A j \in hits : i <= j]]
        ELSE S

\* The draft of currentChat is not the draft of the history entry: the push
\* changes currentChat only.
addMessage(S, payload) ==
    IF S.currentChat # NoChat
    THEN LET newMessage ==
                 [id |-> IF payload.id = NoId THEN S.now ELSE payload.id,
                  role |-> payload.role,
                  content |-> payload.content,
                  req |-> payload.req]
         IN  [S EXCEPT !.currentChat.messages = Append(@, newMessage),
                       !.chatLog[S.currentChat.id] = Append(@, newMessage)]
    ELSE S

deleteChat(S, id) ==
    LET Keep(chat) == chat.id # id
    IN  [S EXCEPT !.chatHistory = SelectSeq(@, Keep),
                  !.currentChat = IF @.id = id THEN NoChat ELSE @,
                  !.chatLog[id] = <<>>]

setLoading(S, value) == [S EXCEPT !.isLoading = value]

setError(S, message) == [S EXCEPT !.error = message]

clearCurrentChat(S) == [S EXCEPT !.currentChat = NoChat]

\* -------------------------------------------------------------- uiSlice
addNotification(S, payload) ==
    [S EXCEPT !.notifications =
         Append(@, [id |-> S.now, type |-> payload.type,
                    message |-> payload.message])]

removeNotification(S, id) ==
    LET Keep(n) == n.id # id
    IN  [S EXCEPT !.notifications = SelectSeq(@, Keep)]

\* ------------------------------------------------------- BedrockService
\* processMessage: resolves with the completion, or throws.
processMessage(fetched) ==
    IF fetched = "ok"
    THEN [ok |-> TRUE, completion |-> Completion]
    ELSE [ok |-> FALSE, completion |-> <<>>]

\* ---------------------------------------------------------- ChatService
\* mutant: the length is never checked
TooLongNever(content) == FALSE

\* line 28
TooLong(content) == Len(content) > MESSAGE_MAX_LENGTH

showError(S, message) ==
    addNotification(setError(S, message),
                    [type |-> "error", message |-> message])

performWebSearch(query) == <<>>

RECURSIVE JoinResults(_)
JoinResults(webResults) ==
    IF Len(webResults) = 0 THEN <<>>
    ELSE Head(webResults).title \o <<"\n">> \o Head(webResults).snippet
         \o (IF Len(webResults) > 1 THEN <<"\n\n">> ELSE <<>>)
         \o JoinResults(Tail(webResults))

prepareContext(content, webResults) ==
    (IF Len(webResults) > 0
     THEN <<[role |-> "user",
             content |-> <<"Contexto de busqueda web:\n">>
                         \o JoinResults(webResults)]>>
     ELSE <<>>)
    \o <<[role |-> "user", content |-> content]>>

\* the role and content of each message of a chat, in order
Turns(messages) ==
    [i \in 1..Len(messages) |->
        [role |-> messages[i].role, content |-> messages[i].content]]

\* let webSearchResults = []; if (options.webSearch) ... (lines 51-54)
WebSearchResults(S, r) ==
    IF S.options[r].webSearch
    THEN performWebSearch(S.submitted[r])
    ELSE <<>>

\* closure, lines 56-61: prepare the context, set loading, call the model
CallModel(S, r) ==
    LET messages == prepareContext(S.submitted[r], WebSearchResults(S, r))
    IN  [setLoading(S, TRUE) EXCEPT !.sent[r] = messages,
                                    !.pc[r] = "model"]

\* closure, lines 50-54: await performWebSearch when webSearch is set
AfterAttachments(S, r) ==
    IF S.options[r].webSearch
    THEN [S EXCEPT !.pc[r] = "search"]
    ELSE CallModel(S, r)

\* closure, lines 35-48: append the user message, await processAttachments
StartTask(S, r) ==
    LET userMessage == [id |-> S.now, content |-> S.submitted[r],
                        role |-> "user", req |-> r]
        S1 == addMessage(S, userMessage)
        S2 == [S1 EXCEPT !.started = Append(@, r),
                         !.prior[r] = Turns(S.currentChat.messages),
                         !.inCurrent = IF S.currentChat # NoChat
                                       THEN @ \cup {r} ELSE @]
    IN  IF S.options[r].attachments
        THEN [S2 EXCEPT !.pc[r] = "attach"]
        ELSE AfterAttachments(S2, r)

\* try block after the model call, lines 61-74: the await throws what
\* processMessage threw, otherwise the assistant message is dispatched
TryBlock(S, r, response) ==
    IF response.ok
    THEN LET assistantMessage ==
                 [id |-> S.now, content |-> response.completion,
                  role |-> "assistant", req |-> r]
         IN  [state |-> addMessage(S, assistantMessage), thrown |-> FALSE]
    ELSE [state |-> S, thrown |-> TRUE]

\* mutant: the catch block swallows the error without reporting it
CatchBlockSilent(T, r) == [T EXCEPT !.thrown = FALSE]

\* mutant: a try / finally without the catch clause
CatchBlockMissing(T, r) == T

\* catch block, lines 76-78
CatchBlock(T, r) ==
    IF T.thrown
    THEN [state |-> showError(T.state, MsgProcessing), thrown |-> FALSE]
    ELSE T

\* mutant: the finally block leaves the loading flag alone
FinallyBlockKeeps(T, r) == T

\* finally block, lines 79-81
FinallyBlock(T, r) == [T EXCEPT !.state = setLoading(@, FALSE)]

\* closure, lines 61-81: the model call settles and the closure runs to its
\* end; its promise is fulfilled, or rejected with what was still thrown
SettleTask(S, r, fetched) ==
    LET response == processMessage(fetched)
        T == FinallyBlock(CatchBlock(TryBlock(S, r, response), r), r)
    IN  [T.state EXCEPT !.pc[r] = IF T.thrown THEN "threw" ELSE "settled",
                        !.options[r] = NoOptions,
                        !.sent[r] = <<>>,
                        !.prior[r] = <<>>]

\* mutant: pop() instead of shift()
DequeueLast(queue) ==
    [next |-> queue[Len(queue)], rest |-> SubSeq(queue, 1, Len(queue) - 1)]

\* messageQueue.shift()
Dequeue(queue) == [next |-> Head(queue), rest |-> Tail(queue)]

\* mutant: the empty queue does not reset isProcessing
processQueueStaysBusy(S) ==
    IF Len(S.messageQueue) = 0
    THEN S
    ELSE LET d == Dequeue(S.messageQueue)
         IN  StartTask([S EXCEPT !.isProcessing = TRUE,
                                 !.messageQueue = d.rest], d.next)

\* processQueue up to its first await, the start of the closure included
processQueue(S) ==
    IF Len(S.messageQueue) = 0
    THEN [S EXCEPT !.isProcessing = FALSE]
    ELSE LET d == Dequeue(S.messageQueue)
         IN  StartTask([S EXCEPT !.isProcessing = TRUE,
                                 !.messageQueue = d.rest], d.next)

\* mutant: processQueue is called without looking at isProcessing
ShouldStartAlways(processing) == TRUE

\* line 85: if (!this.isProcessing)
ShouldStart(processing) == ~processing

\* mutant: unshift() instead of push()
EnqueueFront(queue, r) == <<r>> \o queue

\* line 34: this.messageQueue.push(closure)
Enqueue(queue, r) == Append(queue, r)

sendMessage(S, content, opts) ==
    LET r == Len(S.submitted) + 1
        S0 == [S EXCEPT !.submitted = Append(@, content)]
    IN  IF TooLong(content)
        THEN [showError(S0, MsgTooLong) EXCEPT !.pc[r] = "rejected",
                                               !.sendPromise[r] = "fulfilled"]
        ELSE LET S1 == [S0 EXCEPT !.messageQueue = Enqueue(@, r),
                                  !.options[r] = opts,
                                  !.pc[r] = "queued",
                                  !.sendPromise[r] = "fulfilled"]
             IN  IF ShouldStart(S1.isProcessing) THEN processQueue(S1)
                 ELSE S1

\* processQueue after await nextMessage() (lines 103-105): it calls itself when
\* the closure was fulfilled; when the closure threw, the await throws, line
\* 104 is skipped and the promise of processQueue, which nothing awaits, is
\* rejected
resumeQueue(S, r) ==
    IF S.pc[r] = "settled"
    THEN processQueue([S EXCEPT !.pc[r] = "finished"])
    ELSE [S EXCEPT !.pc[r] = "aborted", !.unhandled = TRUE]

\* a dispatch from the interface; one that replaces the current chat ends the
\* "ever since" of inCurrent
Dispatched(S, T) ==
    [T EXCEPT !.inCurrent = IF T.currentChat.id # S.currentChat.id
                                \/ Len(T.currentChat.messages)
                                       < Len(S.currentChat.messages)
                            THEN {} ELSE @,
              !.dispatched = @ + 1]

\* --------------------------------------------------- FileHandlerService
SUPPORTED_IMAGE_TYPES == <<"image/jpeg", "image/png", "image/gif", "image/webp">>

SUPPORTED_DOCUMENT_TYPES ==
    <<"application/pdf",
      "application/msword",
      "application/vnd.openxmlformats-officedocument.wordprocessingml.document",
      "text/plain">>

\* Array.prototype.includes
Includes(list, x) == \E i \in 1..Len(list) : list[i] = x

\* jpeg FF D8 FF, png 89 50 4E 47, gif 47 49 46 38
signatures ==
    [jpeg |-> <<255, 216, 255>>,
     png |-> <<137, 80, 78, 71>>,
     gif |-> <<71, 73, 70, 56>>]

\* 25 50 44 46, "%PDF"
pdfSignature == <<37, 80, 68, 70>>

ErrTooLarge == "El archivo excede el tamano maximo permitido"
ErrUnsupported == "Tipo de archivo no soportado"
ErrCorrupt == "El archivo esta corrupto o no es valido"
ErrRead == "Error al leer el archivo"
ErrReadDocument == "Error al leer el documento"
ErrImage == "Error al cargar la imagen"
ErrContext == "No se pudo crear el contexto 2D"

\* A File: its declared type, its size in bytes and its leading bytes (the
\* validation looks at no byte behind the longest signature).
HeadLen == Len(pdfSignature)

KnownSignatures == {signatures.jpeg, signatures.png, signatures.gif, pdfSignature}

\* The bytes that matter at position i: those some signature has there, and 0
\* for every other byte.
PositionBytes(i) == {sig[i] : sig \in {g \in KnownSignatures : Len(g) >= i}} \cup {0}

AllBytes == UNION {PositionBytes(i) : i \in 1..HeadLen}

Heads ==
    UNION {{h \in [1..n -> AllBytes] : \A i \in 1..n : h[i] \in PositionBytes(i)}
           : n \in 0..HeadLen}

FileTypes ==
    {SUPPORTED_IMAGE_TYPES[i] : i \in 1..Len(SUPPORTED_IMAGE_TYPES)}
    \cup {SUPPORTED_DOCUMENT_TYPES[i] : i \in 1..Len(SUPPORTED_DOCUMENT_TYPES)}
    \cup {"application/zip"}

Min(a, b) == IF a < b THEN a ELSE b

Files ==
    {f \in [type : FileTypes, size : 0..(MAX_FILE_SIZE + 1), head : Heads] :
        Len(f.head) = Min(f.size, HeadLen)}

NoFile == [type |-> "", size |-> -1, head |-> <<>>]
NoResult == [kind |-> "none"]
NoThumbnail == [width |-> -1, height |-> -1, srcWidth |-> -1, srcHeight |-> -1]
NoRelease == [url |-> -1, thrown |-> FALSE, again |-> FALSE]

Rejected(message) == [kind |-> "error", message |-> message]

\* signature.every((byte, i) => bytes[i] === byte): a byte the file does not
\* have is undefined, which equals no byte
Matches(bytes, signature) ==
    \A i \in 1..Len(signature) : i <= Len(bytes) /\ bytes[i] = signature[i]

\* mutant: any content passes for an image
validateImageSignatureNonEmpty(bytes) == Len(bytes) > 0

validateImageSignature(bytes) ==
    \E k \in DOMAIN signatures : Matches(bytes, signatures[k])

validatePDFSignature(bytes) == Matches(bytes, pdfSignature)

\* mutant: the empty buffer passes too
HasContentAlways(byteLength) == byteLength >= 0

\* line 84: buffer.byteLength > 0
HasContent(byteLength) == byteLength > 0

\* validateFileIntegrity once file.arrayBuffer() has settled; a read that
\* fails is caught and gives false
validateFileIntegrity(f, readable) ==
    IF ~readable THEN FALSE
    ELSE IF Includes(SUPPORTED_IMAGE_TYPES, f.type)
         THEN validateImageSignature(f.head)
    ELSE IF f.type = "application/pdf"
         THEN validatePDFSignature(f.head)
    ELSE HasContent(f.size)

\* mutant: the declared type is checked before the size
validateFileTypeFirst(f) ==
    IF ~Includes(SUPPORTED_IMAGE_TYPES \o SUPPORTED_DOCUMENT_TYPES, f.type)
    THEN Rejected(ErrUnsupported)
    ELSE IF f.size > MAX_FILE_SIZE
    THEN Rejected(ErrTooLarge)
    ELSE NoResult

\* validateFile up to its await (lines 44-60): the size and the declared type
validateFile(f) ==
    IF f.size > MAX_FILE_SIZE
    THEN Rejected(ErrTooLarge)
    ELSE IF ~Includes(SUPPORTED_IMAGE_TYPES \o SUPPORTED_DOCUMENT_TYPES, f.type)
    THEN Rejected(ErrUnsupported)
    ELSE NoResult

\* const MAX_SIZE = 200
MAX_SIZE == 200

\* Widths and heights of decoded images.
Edges == {1, 100, 161, 200, 289, 322, 1000}

\* height *= MAX_SIZE / width is binary64 arithmetic: the quotient is rounded,
\* then the product.  Where edge * MAX_SIZE / longer is a whole number the
\* result can fall just below it; these are the pairs of Edges where it does
\* (289 * (200 / 289) is 199.99999999999997).
RoundsBelow == {<<289, 289>>, <<161, 322>>, <<322, 322>>}

\* mutant: the other edge is left as it is
ScaledUnchanged(edge, longer) == edge

\* edge * (MAX_SIZE / longer), as the canvas takes it: canvas.width and
\* canvas.height are unsigned long, the fraction is dropped
Scaled(edge, longer) ==
    IF <<edge, longer>> \in RoundsBelow
    THEN (edge * MAX_SIZE) \div longer - 1
    ELSE (edge * MAX_SIZE) \div longer

\* createImageThumbnail, lines 165-183: the size of the canvas
ThumbnailSize(width, height) ==
    IF width > height
    THEN IF width > MAX_SIZE
         THEN [width |-> MAX_SIZE, height |-> Scaled(height, width)]
         ELSE [width |-> width, height |-> height]
    ELSE IF height > MAX_SIZE
         THEN [width |-> Scaled(width, height), height |-> MAX_SIZE]
         ELSE [width |-> width, height |-> height]

\* what can happen in createImageThumbnail: the reader fails, the image does
\* not decode, the canvas gives no context, or an image of some size is drawn
DecodeOutcomes ==
    {[kind |-> k, width |-> 1, height |-> 1] : k \in {"readerError", "imageError", "noContext"}}
    \cup [kind : {"decoded"}, width : Edges, height : Edges]

\* mutant: the Attachment of an image without the thumbnail
processImageNoThumbnail(f, url) ==
    [kind |-> "attachment", type |-> "image", url |-> url,
     thumbnailUrl |-> "undefined", size |-> f.size, mimeType |-> f.type]

\* processImage, lines 131-139: the Attachment it resolves with
processImage(f, url) ==
    [kind |-> "attachment", type |-> "image", url |-> url,
     thumbnailUrl |-> "data:image/jpeg", size |-> f.size, mimeType |-> f.type]

\* processDocument, lines 205-212
processDocument(f, url) ==
    [kind |-> "attachment", type |-> "document", url |-> url,
     thumbnailUrl |-> "undefined", size |-> f.size, mimeType |-> f.type]

\* mutant: every object URL is revoked
revokeObjectURLAll(live, url) == {}

\* URL.revokeObjectURL: a URL that is not live is ignored, nothing is thrown
revokeObjectURL(live, url) == live \ {url}

\* releaseFile(url)
releaseFile(live, url) == [live |-> revokeObjectURL(live, url), thrown |-> FALSE]

\* ----------------------------------------------------- WebSearchService
MAX_RESULTS == 5

\* 1000 * 60 * 60, one hour in milliseconds
CACHE_DURATION == 3600000

Queries == {"q1", "q2"}

\* A url, as far as calculateRelevanceScore looks at it: what it starts with
\* and the domain it ends in.  topic.FirstURL || '' gives the empty url.
Url(scheme, host, tld) == [scheme |-> scheme, host |-> host, tld |-> tld]

EmptyUrl == Url("", "", "")

\* A result: its url and the length of its snippet.
Result(url, snippet) == [url |-> url, snippet |-> snippet]

SampleResults ==
    {Result(EmptyUrl, 0),
     Result(Url("ftp://", "a", ".org"), 0),
     Result(Url("ftp://", "a", ".org"), 700),
     Result(Url("http://", "a", ".com"), 0),
     Result(Url("http://", "a", ".com"), 250),
     Result(Url("https://", "b", ".com"), 0),
     Result(Url("http://", "c", ".edu"), 0),
     Result(Url("", "d", ".gov"), 0)}

\* calculateRelevanceScore, in hundredths
calculateRelevanceScore(result) ==
    Min(result.snippet, 500)
    + (IF result.url # EmptyUrl /\ result.url.scheme \in {"http://", "https://"}
       THEN 200 ELSE 0)
    + (IF result.url.tld \in {".edu", ".gov"} THEN 300 ELSE 0)

\* new Map(results.map(r => [r.url, r])).values(): a url keeps the place of
\* its first result and the value of its last
RECURSIVE MapSet(_, _)
MapSet(entries, r) ==
    IF Len(entries) = 0 THEN <<r>>
    ELSE IF Head(entries).url = r.url THEN <<r>> \o Tail(entries)
    ELSE <<Head(entries)>> \o MapSet(Tail(entries), r)

RECURSIVE UniqueByUrl(_)
UniqueByUrl(results) ==
    IF Len(results) = 0 THEN <<>>
    ELSE MapSet(UniqueByUrl(SubSeq(results, 1, Len(results) - 1)),
                results[Len(results)])

\* mutant: the comparator is scoreA - scoreB
ComesBeforeAscending(a, b) ==
    calculateRelevanceScore(a) - calculateRelevanceScore(b) < 0

\* the comparator puts a before b: scoreB - scoreA < 0
ComesBefore(a, b) == calculateRelevanceScore(b) - calculateRelevanceScore(a) < 0

\* Array.prototype.sort is stable: r goes behind everything that does not
\* come after it
RECURSIVE InsertSorted(_, _)
InsertSorted(sorted, r) ==
    IF Len(sorted) = 0 THEN <<r>>
    ELSE IF ComesBefore(r, Head(sorted)) THEN <<r>> \o sorted
    ELSE <<Head(sorted)>> \o InsertSorted(Tail(sorted), r)

RECURSIVE SortByScore(_)
SortByScore(results) ==
    IF Len(results) = 0 THEN <<>>
    ELSE InsertSorted(SortByScore(SubSeq(results, 1, Len(results) - 1)),
                      results[Len(results)])

\* slice(0, n)
Slice(results, n) == SubSeq(results, 1, Min(Len(results), n))

processResults(results) ==
    Slice(SortByScore(UniqueByUrl(results)), MAX_RESULTS)

NoEntry == [results |-> <<>>, timestamp |-> -1]
NoAnswer == [results |-> <<>>, time |-> -1, failed |-> FALSE]
NoCall == [query |-> "", state |-> "none", results |-> <<>>, lookup |-> ""]
NotProcessed == [returned |-> FALSE, results |-> <<>>]

\* mutant: every entry counts as expired
isExpiredAlways(t, timestamp) == TRUE

\* line 130: Date.now() - cached.timestamp > this.CACHE_DURATION
isExpired(t, timestamp) == t - timestamp > CACHE_DURATION

\* getCachedResults: what it returns (null is hit FALSE) and the cache after it
getCachedResults(cch, query, t) ==
    IF cch[query] = NoEntry
    THEN [hit |-> FALSE, lookup |-> "absent", results |-> <<>>, cache |-> cch]
    ELSE IF isExpired(t, cch[query].timestamp)
    THEN [hit |-> FALSE, lookup |-> "expired", results |-> <<>>,
          cache |-> [cch EXCEPT ![query] = NoEntry]]
    ELSE [hit |-> TRUE, lookup |-> "hit", results |-> cch[query].results,
          cache |-> cch]

cleanCache(cch, t) ==
    [q \in Queries |->
        IF cch[q] # NoEntry /\ t - cch[q].timestamp > CACHE_DURATION
        THEN NoEntry ELSE cch[q]]

cacheResults(cch, query, results, t) ==
    cleanCache([cch EXCEPT ![query] = [results |-> results, timestamp |-> t]], t)

\* what the request of searchDuckDuckGo can come to: an answer with some
\* results, a response that is not ok, or no response
Answers ==
    {<<>>,
     <<Result(Url("http://", "a", ".com"), 0)>>,
     <<Result(Url("http://", "a", ".com"), 250),
       Result(Url("http://", "c", ".edu"), 0)>>}

SearchOutcomes ==
    [kind : {"ok"}, results : Answers]
    \cup [kind : {"notOk", "networkError"}, results : {<<>>}]

\* searchDuckDuckGo: the results of the answer; an error is caught and gives []
searchDuckDuckGo(outcome) ==
    IF outcome.kind = "ok" THEN outcome.results ELSE <<>>

\* the moments Date.now() is looked at: the first milliseconds, and the
\* first ones after one cache duration
SearchTimes == (0..MaxTicks) \cup {CACHE_DURATION + t : t \in 0..MaxTicks}

\* ------------------------------------------------------------- actions
\* the file handler after construction, no processFile call made yet
FileHandlerInit ==
    /\ filePc = "idle"
    /\ fileResult = NoResult
    /\ bytesRead = "no"
    /\ thumbnail = NoThumbnail
    /\ objectUrls = {}
    /\ urlsCreated = 0
    /\ released = {}
    /\ lastRelease = NoRelease

\* the search service after construction
WebSearchInit ==
    /\ cache = [q \in Queries |-> NoEntry]
    /\ calls = [c \in 1..MaxSearches |-> NoCall]
    /\ fetchCount = 0
    /\ answered = [q \in Queries |-> NoAnswer]
    /\ processed = NotProcessed

\* the store and the ChatService after construction
ChatInit ==
    /\ currentChat = NoChat
    /\ chatHistory = <<>>
    /\ isLoading = FALSE
    /\ error = NoError
    /\ notifications = <<>>
    /\ messageQueue = <<>>
    /\ isProcessing = FALSE
    /\ now = 0
    /\ pc = [r \in Requests |-> "none"]
    /\ options = [r \in Requests |-> NoOptions]
    /\ sent = [r \in Requests |-> <<>>]
    /\ submitted = <<>>
    /\ started = <<>>
    /\ prior = [r \in Requests |-> <<>>]
    /\ sendPromise = [r \in Requests |-> "none"]
    /\ unhandled = FALSE
    /\ failed = {}
    /\ inCurrent = {}
    /\ dispatched = 0
    /\ chatLog = [id \in 0..MaxClock |-> <<>>]

Init ==
    /\ ChatInit
    /\ file = NoFile
    /\ FileHandlerInit
    /\ WebSearchInit
    /\ raw = <<>>

\* a caller invokes chatService.sendMessage(content, options)
SendMessage ==
    /\ Len(submitted) < MaxSubmissions
    /\ \E content \in Contents, opts \in Options :
           Set(sendMessage(Cur, content, opts))

\* await this.processAttachments(...) resumes the closure
AttachmentsDone ==
    \E r \in Requests :
        /\ pc[r] = "attach"
        /\ Set(AfterAttachments(Cur, r))

\* await this.performWebSearch(...) resumes the closure
WebSearchDone ==
    \E r \in Requests :
        /\ pc[r] = "search"
        /\ Set(CallModel(Cur, r))

\* await bedrockService.processMessage(...) settles
ModelSettles ==
    \E r \in Requests, fetched \in FetchOutcomes :
        /\ pc[r] = "model"
        /\ Set([SettleTask(Cur, r, fetched)
                   EXCEPT !.failed = IF fetched # "ok" THEN @ \cup {r} ELSE @])

\* await nextMessage() resumes processQueue
QueueResumes ==
    \E r \in Requests :
        /\ pc[r] \in {"settled", "threw"}
        /\ Set(resumeQueue(Cur, r))

\* The interface dispatches from event handlers, which are tasks of the event
\* loop: none runs while a resumption (a microtask) is pending.
MicrotaskPending ==
    \E r \in Requests : pc[r] \in {"attach", "search", "settled", "threw"}

CanDispatch == dispatched < MaxDispatches /\ ~MicrotaskPending

\* WelcomeScreen: the start button
CreateChat ==
    /\ CanDispatch
    /\ Set(Dispatched(Cur, createChat(Cur)))

SetCurrentChat ==
    /\ CanDispatch
    /\ \E i \in 1..Len(chatHistory) :
           Set(Dispatched(Cur, setCurrentChat(Cur, chatHistory[i].id)))

DeleteChat ==
    /\ CanDispatch
    /\ \E i \in 1..Len(chatHistory) :
           Set(Dispatched(Cur, deleteChat(Cur, chatHistory[i].id)))

ClearCurrentChat ==
    /\ CanDispatch
    /\ Set(Dispatched(Cur, clearCurrentChat(Cur)))

\* ChatInput.handleSubmit: dispatch(addMessage({content, role: 'user'}))
HandleSubmit ==
    /\ CanDispatch
    /\ Set(Dispatched(Cur, addMessage(Cur, [id |-> NoId, content |-> Text(1),
                                            role |-> "user", req |-> 0])))

\* Notifications: the dismiss button of one notification
RemoveNotification ==
    /\ ~MicrotaskPending
    /\ \E i \in 1..Len(notifications) :
           Set(removeNotification(Cur, notifications[i].id))

Tick ==
    /\ now < MaxClock
    /\ now' = now + 1
    /\ UNCHANGED <<currentChat, chatHistory, isLoading, error, notifications,
                   messageQueue, isProcessing, pc, options, sent, submitted,
                   started, prior, sendPromise, unhandled, failed,
                   inCurrent, dispatched, chatLog>>
    /\ UNCHANGED <<fileVars, searchVars>>

\* -------------------------------------------- actions of the file handler
\* processFile(file) up to the first await: validateFile checks the size and
\* the declared type and then asks for the bytes
ProcessFile ==
    /\ filePc \in {"idle", "done"}
    /\ urlsCreated < MaxFiles
    /\ LET checked == validateFile(file)
       IN  /\ fileResult' = checked
           /\ filePc' = IF checked = NoResult THEN "integrity" ELSE "done"
           /\ bytesRead' = IF checked = NoResult THEN "asked" ELSE "no"
    /\ thumbnail' = NoThumbnail
    /\ UNCHANGED <<file, objectUrls, urlsCreated, released, lastRelease>>
    /\ UNCHANGED <<chatVars, searchVars>>

\* await file.arrayBuffer() settles: the rest of validateFile, and processFile
\* up to the FileReader of processImage or processDocument
IntegrityChecked ==
    /\ filePc = "integrity"
    /\ \E readable \in BOOLEAN :
        /\ bytesRead' = IF readable THEN "read" ELSE "failed"
        /\ IF validateFileIntegrity(file, readable)
           THEN /\ filePc' = "reading"
                /\ fileResult' = fileResult
           ELSE /\ filePc' = "done"
                /\ fileResult' = Rejected(ErrCorrupt)
    /\ UNCHANGED <<file, thumbnail, objectUrls, urlsCreated, released,
                   lastRelease>>
    /\ UNCHANGED <<chatVars, searchVars>>

\* reader.onload / reader.onerror of processImage and processDocument
ReaderSettles ==
    /\ filePc = "reading"
    /\ \E loaded \in BOOLEAN :
        LET url == urlsCreated + 1
            image == Includes(SUPPORTED_IMAGE_TYPES, file.type)
        IN  IF ~loaded
            THEN /\ filePc' = "done"
                 /\ fileResult' = Rejected(IF image THEN ErrRead
                                           ELSE ErrReadDocument)
                 /\ UNCHANGED <<objectUrls, urlsCreated>>
            ELSE /\ objectUrls' = objectUrls \cup {url}
                 /\ urlsCreated' = url
                 /\ IF image
                    THEN /\ filePc' = "thumbnail"
                         /\ fileResult' = fileResult
                    ELSE /\ filePc' = "done"
                         /\ fileResult' = processDocument(file, url)
    /\ UNCHANGED <<file, bytesRead, thumbnail, released, lastRelease>>
    /\ UNCHANGED <<chatVars, searchVars>>

\* await this.createImageThumbnail(file) settles
ThumbnailSettles ==
    /\ filePc = "thumbnail"
    /\ \E d \in DecodeOutcomes :
        IF d.kind = "decoded"
        THEN LET size == ThumbnailSize(d.width, d.height)
             IN  /\ thumbnail' = [width |-> size.width, height |-> size.height,
                                  srcWidth |-> d.width, srcHeight |-> d.height]
                 /\ fileResult' = processImage(file, urlsCreated)
        ELSE /\ thumbnail' = thumbnail
             /\ fileResult' = Rejected(CASE d.kind = "readerError" -> ErrRead
                                         [] d.kind = "imageError" -> ErrImage
                                         [] OTHER -> ErrContext)
    /\ filePc' = "done"
    /\ UNCHANGED <<file, bytesRead, objectUrls, urlsCreated, released,
                   lastRelease>>
    /\ UNCHANGED <<chatVars, searchVars>>

\* a caller invokes fileHandlerService.releaseFile(url), with the url of an
\* Attachment or with a string that never was an object URL (0)
ReleaseFile ==
    /\ \E url \in 0..urlsCreated :
        LET done == releaseFile(objectUrls, url)
        IN  /\ objectUrls' = done.live
            /\ released' = released \cup {url}
            /\ lastRelease' = [url |-> url, thrown |-> done.thrown,
                               again |-> url \in released]
    /\ thumbnail' = NoThumbnail
    /\ UNCHANGED <<file, filePc, fileResult, bytesRead, urlsCreated>>
    /\ UNCHANGED <<chatVars, searchVars>>

\* ------------------------------------------ actions of the search service
\* search(query) up to its first await: the cache is looked up, and on a miss
\* the request to the collaborator is sent
Search ==
    \E c \in 1..MaxSearches, query \in Queries :
        /\ calls[c].state = "none"
        /\ \A b \in 1..(c - 1) : calls[b].state # "none"
        /\ LET cached == getCachedResults(cache, query, now)
           IN  /\ cache' = cached.cache
               /\ IF cached.hit
                  THEN /\ calls' = [calls EXCEPT ![c] =
                                [query |-> query, state |-> "done",
                                 results |-> cached.results, lookup |-> "hit"]]
                       /\ fetchCount' = fetchCount
                  ELSE /\ calls' = [calls EXCEPT ![c] =
                                [query |-> query, state |-> "fetching",
                                 results |-> <<>>, lookup |-> cached.lookup]]
                       /\ fetchCount' = fetchCount + 1
        /\ UNCHANGED <<answered, raw, processed>>
        /\ UNCHANGED <<chatVars, fileVars>>

\* the request of a search call settles: the results are processed, cached
\* and returned
SearchSettles ==
    \E c \in 1..MaxSearches, outcome \in SearchOutcomes :
        /\ calls[c].state = "fetching"
        /\ LET results == processResults(searchDuckDuckGo(outcome))
           IN  /\ cache' = cacheResults(cache, calls[c].query, results, now)
               /\ calls' = [calls EXCEPT ![c].state = "done",
                                         ![c].results = results]
               /\ answered' = [answered EXCEPT ![calls[c].query] =
                                   [results |-> results, time |-> now,
                                    failed |-> outcome.kind # "ok"]]
        /\ UNCHANGED <<fetchCount, raw, processed>>
        /\ UNCHANGED <<chatVars, fileVars>>

\* time passes
Elapse ==
    /\ \E t \in SearchTimes : t > now /\ now' = t
    /\ UNCHANGED <<currentChat, chatHistory, isLoading, error, notifications,
                   messageQueue, isProcessing, pc, options, sent, submitted,
                   started, prior, sendPromise, unhandled, failed,
                   inCurrent, dispatched, chatLog>>
    /\ UNCHANGED <<fileVars, searchVars>>

\* one more result in the answer of the collaborator: the answers are the
\* lists of at most MaxRaw different results of SampleResults
MoreResults ==
    /\ processed = NotProcessed
    /\ Len(raw) < MaxRaw
    /\ \E r \in SampleResults :
        /\ \A i \in 1..Len(raw) : raw[i] # r
        /\ raw' = Append(raw, r)
    /\ UNCHANGED <<cache, calls, fetchCount, answered, processed>>
    /\ UNCHANGED <<chatVars, fileVars>>

\* processResults(results)
ProcessResults ==
    /\ processed = NotProcessed
    /\ processed' = [returned |-> TRUE, results |-> processResults(raw)]
    /\ UNCHANGED <<cache, calls, fetchCount, answered, raw>>
    /\ UNCHANGED <<chatVars, fileVars>>

Next ==
    \/ SendMessage
    \/ AttachmentsDone
    \/ WebSearchDone
    \/ ModelSettles
    \/ QueueResumes
    \/ CreateChat
    \/ SetCurrentChat
    \/ DeleteChat
    \/ ClearCurrentChat
    \/ HandleSubmit
    \/ RemoveNotification
    \/ Tick

Spec == Init /\ [][Next]_vars

\* The queue on its own, for progress: callers of sendMessage, the steps of
\* the queue, and the creation of chats.  The other dispatches of the interface
\* and the clock neither read nor write what the queue's steps depend on.
\* The event loop runs every pending resumption, and the model collaborator is
\* taken to settle every call.
QueueNext ==
    \/ SendMessage
    \/ AttachmentsDone
    \/ WebSearchDone
    \/ ModelSettles
    \/ QueueResumes
    \/ CreateChat

QueueSpec ==
    /\ Init
    /\ [][QueueNext]_vars
    /\ WF_vars(AttachmentsDone)
    /\ WF_vars(WebSearchDone)
    /\ WF_vars(ModelSettles)
    /\ WF_vars(QueueResumes)

\* The attachment pipeline on its own: nothing calls it from the queue
\* (ChatService.processAttachments does not use it).
FileNext ==
    \/ ProcessFile
    \/ IntegrityChecked
    \/ ReaderSettles
    \/ ThumbnailSettles
    \/ ReleaseFile

FileInit ==
    /\ ChatInit
    /\ file \in Files
    /\ FileHandlerInit
    /\ WebSearchInit
    /\ raw = <<>>

FileSpec == FileInit /\ [][FileNext]_vars

\* The search service on its own: nothing calls it from the queue
\* (ChatService.performWebSearch does not use it).
SearchNext ==
    \/ Search
    \/ SearchSettles
    \/ Elapse

SearchSpec == Init /\ [][SearchNext]_vars

\* processResults on every answer of the collaborator
ResultsNext ==
    \/ MoreResults
    \/ ProcessResults

ResultsSpec == Init /\ [][ResultsNext]_vars

\* ---------------------------------------------------------- properties
\* A request executes from the start of its closure (the user message is
\* dispatched) to the end of its finally block.
Executing(r) == pc[r] \in {"attach", "search", "model"}

Waiting(r) == pc[r] = "queued"

Settled(r) == pc[r] \in {"settled", "finished"}

\* the accepted requests, in the order sendMessage accepted them
AcceptedOrder ==
    LET Accepted(r) == Len(submitted[r]) <= MESSAGE_MAX_LENGTH
    IN  SelectSeq([r \in 1..Len(submitted) |-> r], Accepted)

LastOf(seq) == seq[Len(seq)]

\* C1: at most one queued request is executing at any time, so at most one
\* model call is in flight.
C1_AtMostOneExecuting ==
    Cardinality({r \in Requests : Executing(r)}) <= 1

\* C1 witness: a model call is in flight while another accepted request waits.
C1_Witness ==
    \E r, q \in Requests : pc[r] = "model" /\ Waiting(q)

\* C3: the k-th accepted request is the k-th to start.
C3_StartInAcceptanceOrder ==
    /\ Len(started) <= Len(AcceptedOrder)
    /\ \A k \in 1..Len(started) : started[k] = AcceptedOrder[k]

\* C3 witness: three requests have started, and the first of them failed.
C3_Witness ==
    /\ Len(started) = 3
    /\ started[1] \in failed

\* C5: a sendMessage call with an over-length content only sets the error field
\* and adds an error notification: it leaves the queue, the processing flag,
\* the chats and the loading flag as they are, starts no closure and no model
\* call, and its content is never enqueued or executed later.
C5_OverLengthStep ==
    (/\ Len(submitted') = Len(submitted) + 1
     /\ Len(LastOf(submitted')) > MESSAGE_MAX_LENGTH)
    => /\ messageQueue' = messageQueue
       /\ isProcessing' = isProcessing
       /\ currentChat' = currentChat
       /\ chatHistory' = chatHistory
       /\ isLoading' = isLoading
       /\ started' = started
       /\ sent' = sent
       /\ \A r \in Requests : Executing(r)' <=> Executing(r)
       /\ error' = MsgTooLong
       /\ notifications' = Append(notifications,
               [id |-> now, type |-> "error", message |-> MsgTooLong])

C5_OverLengthNeverQueued ==
    \A r \in 1..Len(submitted) :
        Len(submitted[r]) > MESSAGE_MAX_LENGTH
        => /\ \A k \in 1..Len(messageQueue) : messageQueue[k] # r
           /\ \A k \in 1..Len(started) : started[k] # r
           /\ ~Executing(r)
           /\ ~Waiting(r)

C5_OverLengthRejected ==
    [][C5_OverLengthStep]_vars /\ []C5_OverLengthNeverQueued

\* C5 witness: an over-length call was turned down while a model call was in
\* flight and another request was waiting.
C5_Witness ==
    /\ \E r \in 1..Len(submitted) : Len(submitted[r]) > MESSAGE_MAX_LENGTH
    /\ \E r \in Requests : pc[r] = "model"
    /\ Len(messageQueue) = 1
    /\ error = MsgTooLong

\* C8: whenever no request is executing (at the end of a request's execution,
\* and when the queue is idle) the loading flag is false.
C8_LoadingClearedWhenIdle ==
    (\A r \in Requests : ~Executing(r)) => ~isLoading

\* C8 witness: the queue is idle after one request failed and another got its
\* reply.
C8_Witness ==
    /\ ~isProcessing
    /\ \E r, q \in Requests :
           /\ pc[r] = "finished" /\ r \in failed
           /\ pc[q] = "finished" /\ q \notin failed

\* the messages of a list that queued requests dispatched
OfRequests(messages) ==
    LET FromRequest(m) == m.req # 0
    IN  SelectSeq(messages, FromRequest)

\* no reordering and no interleaving: requests in submission order, each with
\* at most one user message and then at most one assistant message
InSubmissionOrder(messages) ==
    LET q == OfRequests(messages)
    IN  \A i, j \in 1..Len(q) :
            i < j => \/ q[i].req < q[j].req
                     \/ /\ q[i].req = q[j].req
                        /\ q[i].role = "user"
                        /\ q[j].role = "assistant"

HasUserMessage(messages, r) ==
    \E i \in 1..Len(messages) :
        /\ messages[i].req = r
        /\ messages[i].role = "user"
        /\ messages[i].content = submitted[r]

HasReply(messages, r) ==
    \E i \in 1..Len(messages) :
        messages[i].req = r /\ messages[i].role = "assistant"

AllChats == {currentChat} \cup {chatHistory[i] : i \in 1..Len(chatHistory)}

\* C2: every message list holds the messages of the requests in submission
\* order, a reply after its own user message and before the user message of
\* every later request; and while the chat a request started in stays the
\* current chat, its list holds the request's user message, and its reply once
\* the model call has answered.
C2_RepliesInSubmissionOrder ==
    /\ \A chat \in AllChats : InSubmissionOrder(chat.messages)
    /\ \A r \in inCurrent :
           /\ HasUserMessage(currentChat.messages, r)
           /\ (Settled(r) /\ r \notin failed)
                  => HasReply(currentChat.messages, r)

\* C2 witness: three requests ran in one chat, the second failed, and the list
\* holds five messages of theirs.
C2_Witness ==
    /\ inCurrent = {1, 2, 3}
    /\ failed = {2}
    /\ Len(OfRequests(currentChat.messages)) = 5

\* C4: a request that settles has appended its assistant message or surfaced
\* an error (error field and error notification), never both and never
\* neither.
C4_SettleStep ==
    \A r \in Requests :
        (pc[r] = "model" /\ pc'[r] # "model")
        => LET appended ==
                   currentChat'.messages
                     = Append(currentChat.messages,
                              [id |-> now, role |-> "assistant",
                               content |-> Completion, req |-> r])
               surfaced ==
                   /\ error' = MsgProcessing
                   /\ notifications'
                        = Append(notifications,
                                 [id |-> now, type |-> "error",
                                  message |-> MsgProcessing])
           IN  (appended \/ surfaced) /\ ~(appended /\ surfaced)

C4_ExactlyOneOutcome == [][C4_SettleStep]_vars

\* C6: when the model call of a request fails, the step that settles it adds
\* an error notification, sets the error field and appends nothing; no list
\* ever holds a reply of that request, the error field stays set, and the
\* user message of the request stays in its chat.
C6_FailureStep ==
    \A r \in Requests :
        (r \notin failed /\ r \in failed')
        => /\ error' = MsgProcessing
           /\ notifications' = Append(notifications,
                   [id |-> now, type |-> "error", message |-> MsgProcessing])
           /\ currentChat' = currentChat
           /\ chatHistory' = chatHistory

C6_AfterFailure ==
    \A r \in failed :
        /\ \A chat \in AllChats : ~HasReply(chat.messages, r)
        /\ error # NoError
        /\ r \in inCurrent => HasUserMessage(currentChat.messages, r)

C6_ModelFailureReported == [][C6_FailureStep]_vars /\ []C6_AfterFailure

\* C6 witness: a request failed in the current chat, a later one got its reply.
C6_Witness ==
    \E r, q \in inCurrent :
        /\ r \in failed
        /\ r < q
        /\ HasReply(currentChat.messages, q)

\* C7: every accepted request is executed and settled, and processQueue
\* resumes after it; a request waits only while the queue is being processed;
\* and once nothing executes or waits the queue is idle (isProcessing false).
C7_ChainAlive == \E r \in Requests : Executing(r) \/ pc[r] = "settled"

C7_NoneLeftWaiting == Len(messageQueue) > 0 => C7_ChainAlive

C7_IdleAfterLast == isProcessing => C7_ChainAlive

C7_EveryRequestSettles ==
    /\ \A r \in Requests : (Waiting(r) \/ Executing(r)) ~> Settled(r)
    /\ \A r \in Requests : Settled(r) ~> (pc[r] = "finished")
    /\ [](C7_NoneLeftWaiting /\ C7_IdleAfterLast)

\* C7 witness: a request waits in the queue at the instant the closure of a
\* failed request has finished and processQueue has not resumed yet.
C7_Witness ==
    \E r, q \in Requests :
        /\ pc[r] = "settled"
        /\ r \in failed
        /\ messageQueue = <<q>>

\* C9: the turns sent to the model are the prior messages of the chat, then
\* the optional search context, then the new user content.
C9_ContextHasPriorTurns ==
    \A r \in Requests :
        pc[r] = "model"
        => sent[r] = prior[r] \o prepareContext(submitted[r],
                                                WebSearchResults(Cur, r))

\* C10: no promise of sendMessage and no promise of processQueue is rejected,
\* and no closure ends with an error still thrown.
C10_NothingRejects ==
    /\ ~unhandled
    /\ \A r \in Requests :
           /\ sendPromise[r] # "rejected"
           /\ pc[r] \notin {"threw", "aborted"}

\* C10 witness: an over-length call was turned down, a model call failed, and
\* the queue went on to the next request.
C10_Witness ==
    \E r, q, p \in Requests :
        /\ pc[r] = "rejected" /\ sendPromise[r] = "fulfilled"
        /\ pc[q] = "finished" /\ q \in failed
        /\ q < p /\ Executing(p)

\* ------------------------------------------- properties of the file handler
ImageTypes == {"image/jpeg", "image/png", "image/gif", "image/webp"}

DocumentTypes ==
    {"application/pdf", "application/msword",
     "application/vnd.openxmlformats-officedocument.wordprocessingml.document",
     "text/plain"}

AllowListed(type) == type \in ImageTypes \cup DocumentTypes

BeginsWith(bytes, prefix) ==
    /\ Len(bytes) >= Len(prefix)
    /\ SubSeq(bytes, 1, Len(prefix)) = prefix

\* the call under way, or the last one, got past the content-signature check
PassedSignatureCheck ==
    /\ bytesRead \in {"read", "failed"}
    /\ fileResult # Rejected(ErrCorrupt)

IsAttachment == fileResult.kind = "attachment"

\* C11: a file over the size limit fails with the size error whatever its
\* declared type, a file within the limit whose declared type is not on the
\* allow-list fails with the unsupported-type error, neither has its bytes
\* read, and the corrupt-file error is reported only for files that passed
\* both earlier checks.
C11_ValidationOrder ==
    /\ (filePc # "idle" /\ file.size > MAX_FILE_SIZE)
           => /\ filePc = "done"
              /\ fileResult = Rejected(ErrTooLarge)
              /\ bytesRead = "no"
    /\ (filePc # "idle" /\ file.size <= MAX_FILE_SIZE /\ ~AllowListed(file.type))
           => /\ filePc = "done"
              /\ fileResult = Rejected(ErrUnsupported)
              /\ bytesRead = "no"
    /\ fileResult = Rejected(ErrCorrupt)
           => /\ file.size <= MAX_FILE_SIZE
              /\ AllowListed(file.type)
              /\ bytesRead \in {"read", "failed"}

\* C11 witness: an oversized file of an unsupported type was turned down.
C11_Witness ==
    /\ filePc = "done"
    /\ file.size > MAX_FILE_SIZE
    /\ file.type = "application/zip"
    /\ fileResult = Rejected(ErrTooLarge)

\* the magic number of a declared type that has one
OwnSignature ==
    [t \in {"image/jpeg", "image/png", "image/gif", "application/pdf"} |->
        CASE t = "image/jpeg" -> <<255, 216, 255>>
          [] t = "image/png" -> <<137, 80, 78, 71>>
          [] t = "image/gif" -> <<71, 73, 70, 56>>
          [] OTHER -> <<37, 80, 68, 70>>]

\* C12: a file of a declared type that has a magic number passes the
\* content-signature check only if its first bytes are that magic number.
C12_SignatureOfDeclaredType ==
    (PassedSignatureCheck /\ file.type \in DOMAIN OwnSignature)
        => BeginsWith(file.head, OwnSignature[file.type])

\* C13 as stated: a file within the size limit, declared image/png, whose
\* bytes begin with the PDF signature fails with the unsupported-type error.
C13_PdfBytesAsPngUnsupported ==
    (/\ filePc = "done"
     /\ file.type = "image/png"
     /\ file.size <= MAX_FILE_SIZE
     /\ BeginsWith(file.head, <<37, 80, 68, 70>>))
        => fileResult = Rejected(ErrUnsupported)

\* C13 as amended: that file passes the declared-type check, has its bytes
\* asked for, and fails with the corrupt-file error; no Attachment is made.
C13_PdfBytesAsPngCorrupt ==
    (/\ filePc # "idle"
     /\ file.type = "image/png"
     /\ file.size <= MAX_FILE_SIZE
     /\ BeginsWith(file.head, <<37, 80, 68, 70>>))
        => /\ bytesRead # "no"
           /\ filePc \in {"integrity", "done"}
           /\ filePc = "done" => fileResult = Rejected(ErrCorrupt)

\* C13 witness: the ingestion of such a file has ended.
C13_Witness ==
    /\ filePc = "done"
    /\ file = [type |-> "image/png", size |-> 4, head |-> <<37, 80, 68, 70>>]
    /\ bytesRead = "read"
    /\ fileResult.kind = "error"

\* C14: a non-empty file of an allow-listed type without a known signature
\* (WebP, DOC, DOCX, plain text) whose bytes were read passes the
\* content-signature check, whatever its leading bytes are.
C14_NoSignatureTypesPass ==
    (/\ filePc \notin {"idle", "integrity"}
     /\ file.type \in (ImageTypes \cup DocumentTypes) \ DOMAIN OwnSignature
     /\ file.size > 0
     /\ file.size <= MAX_FILE_SIZE
     /\ bytesRead = "read")
        => fileResult # Rejected(ErrCorrupt)

\* C15: the ingestion of a zero-length file declared text/plain ends with the
\* corrupt-file error; it never gets past the signature check, so no object
\* URL and no Attachment is made for it.
C15_EmptyTextFileFails ==
    (file.type = "text/plain" /\ file.size = 0)
        => /\ filePc \in {"idle", "integrity", "done"}
           /\ filePc = "done" => fileResult = Rejected(ErrCorrupt)
           /\ ~IsAttachment
           /\ urlsCreated = 0

\* C15 witness: the bytes of such a file were read and the ingestion ended.
C15_Witness ==
    /\ file.type = "text/plain"
    /\ file.size = 0
    /\ filePc = "done"
    /\ bytesRead = "read"
    /\ fileResult.kind = "error"

\* C16: an Attachment has the locator of the original, and it has a thumbnail
\* locator exactly when its declared type is an image type.
C16_ThumbnailIffImage ==
    IsAttachment
        => /\ fileResult.url \in 1..urlsCreated
           /\ fileResult.mimeType = file.type
           /\ (fileResult.thumbnailUrl # "undefined") <=> (file.type \in ImageTypes)
           /\ (fileResult.type = "image") <=> (file.type \in ImageTypes)

\* C16 witness: a file FF D8 FF declared image/jpeg was ingested, the
\* thumbnail was drawn in this step.
C16_Witness ==
    /\ IsAttachment
    /\ file.type = "image/jpeg"
    /\ file.head = <<255, 216, 255>>
    /\ fileResult.thumbnailUrl # "undefined"
    /\ thumbnail # NoThumbnail

Max(a, b) == IF a > b THEN a ELSE b

\* C17 as stated: the longer edge of a thumbnail is 200 and its width is to
\* its height as the width of the source is to its height.
C17_LongerEdgeIsTarget ==
    thumbnail # NoThumbnail
        => /\ Max(thumbnail.width, thumbnail.height) = 200
           /\ thumbnail.width * thumbnail.srcHeight
                = thumbnail.height * thumbnail.srcWidth

\* t is edge * 200 / longer rounded down to a whole number, or one less
Proportional(t, edge, longer) ==
    /\ t * longer <= edge * 200
    /\ edge * 200 <= (t + 1) * longer

\* C17 as amended: an image with both edges at most 200 keeps its size; a
\* larger one gets its longer edge set to 200 and its other edge to the
\* proportional length in whole pixels, rounded down by at most one.
C17_LongerEdgeAtMostTarget ==
    thumbnail # NoThumbnail
        => LET longer == Max(thumbnail.srcWidth, thumbnail.srcHeight)
           IN  IF longer <= 200
               THEN /\ thumbnail.width = thumbnail.srcWidth
                    /\ thumbnail.height = thumbnail.srcHeight
               ELSE /\ Max(thumbnail.width, thumbnail.height) = 200
                    /\ Proportional(thumbnail.width, thumbnail.srcWidth, longer)
                    /\ Proportional(thumbnail.height, thumbnail.srcHeight, longer)

\* C17 witness: the thumbnail of an image of 1000 by 161.
C17_Witness ==
    thumbnail = [width |-> 200, height |-> 32,
                 srcWidth |-> 1000, srcHeight |-> 161]

\* C18: a step that takes object URLs away takes away the one releaseFile was
\* called with and no other; a URL once released is not live again, so a
\* second release of it changes nothing; and releaseFile never throws.
C18_ReleaseStep ==
    (objectUrls' # objectUrls /\ objectUrls' \subseteq objectUrls)
        => objectUrls' = objectUrls \ {lastRelease'.url}

C18_Released ==
    /\ released \cap objectUrls = {}
    /\ ~lastRelease.thrown

C18_ReleaseIdempotentLocal == [][C18_ReleaseStep]_vars /\ []C18_Released

\* C18 witness: the locator of one Attachment was released a second time while
\* the locator of another Attachment is live.
C18_Witness ==
    /\ lastRelease.again
    /\ lastRelease.url >= 1
    /\ objectUrls # {}
    /\ lastRelease.url \notin objectUrls

\* ----------------------------------------- properties of the search service
\* C19: a search for a query whose last answer is less than the cache duration
\* old returns the result list of that answer and sends no request to the
\* collaborator; a search for a query whose last answer is older than the
\* duration sends exactly one request, and when the request settles the result
\* is cached again under the query with the time of the answer.
C19_SearchStep ==
    \A c \in 1..MaxSearches :
        (calls[c].state = "none" /\ calls'[c].state # "none")
        => LET last == answered[calls'[c].query]
           IN  /\ (last # NoAnswer /\ now - last.time < CACHE_DURATION)
                      => /\ calls'[c].state = "done"
                         /\ calls'[c].results = last.results
                         /\ fetchCount' = fetchCount
               /\ (last # NoAnswer /\ now - last.time > CACHE_DURATION)
                      => /\ calls'[c].state = "fetching"
                         /\ fetchCount' = fetchCount + 1

C19_SettleStep ==
    \A c \in 1..MaxSearches :
        (calls[c].state = "fetching" /\ calls'[c].state = "done")
        => /\ fetchCount' = fetchCount
           /\ cache'[calls[c].query]
                = [results |-> calls'[c].results, timestamp |-> now]

C19_CachedWithinWindow == [][C19_SearchStep /\ C19_SettleStep]_vars

\* C19 witness: the first search of a query was answered, the second found the
\* entry expired and was answered, and the third returned the second's list
\* from the cache.
C19_Witness ==
    /\ \A c \in 1..3 : calls[c].query = "q1" /\ calls[c].state = "done"
    /\ calls[1].lookup = "absent"
    /\ calls[2].lookup = "expired"
    /\ calls[3].lookup = "hit"
    /\ calls[3].results = calls[2].results
    /\ Len(calls[3].results) = 2
    /\ fetchCount = 2

UrlsOf(results) == {results[i].url : i \in 1..Len(results)}

\* the results that stand for their url: the last one of each url
LastOfUrl(results) ==
    {results[i] : i \in {k \in 1..Len(results) :
                            \A j \in (k + 1)..Len(results) :
                                results[j].url # results[k].url}}

\* C20: the list processResults returns has at most 5 entries, taken from the
\* raw results, no two with the same url, in order of non-increasing score;
\* it has an entry for each url when there are at most 5 urls, and otherwise
\* no result that was left out scores higher than one that was kept.
C20_TopFiveDistinct ==
    processed.returned
    => LET out == processed.results
       IN  /\ Len(out) <= 5
           /\ \A i \in 1..Len(out) : \E k \in 1..Len(raw) : raw[k] = out[i]
           /\ \A i, j \in 1..Len(out) : i # j => out[i].url # out[j].url
           /\ \A i, j \in 1..Len(out) :
                  i < j => calculateRelevanceScore(out[i])
                             >= calculateRelevanceScore(out[j])
           /\ Len(out) = Min(5, Cardinality(UrlsOf(raw)))
           /\ \A r \in LastOfUrl(raw) :
                  r.url \notin UrlsOf(out)
                  => \A i \in 1..Len(out) :
                         calculateRelevanceScore(out[i])
                           >= calculateRelevanceScore(r)

\* C20 witness: seven raw results of six urls, of which five were kept.
C20_Witness ==
    /\ processed.returned
    /\ Len(raw) = 7
    /\ Cardinality(UrlsOf(raw)) = 6
    /\ Len(processed.results) = 5

\* the sequence without its i-th element
RemoveAt(seq, i) == SubSeq(seq, 1, i - 1) \o SubSeq(seq, i + 1, Len(seq))

\* C21: dismissing one notification removes exactly that notification and
\* leaves every other notification in the list, in its original order, at
\* every timing of addNotification and removeNotification (two notifications
\* added within the same clock tick included): a step that shortens the list
\* takes exactly one element out of it.
C21_DismissStep ==
    Len(notifications') < Len(notifications)
        => \E i \in 1..Len(notifications) :
               notifications' = RemoveAt(notifications, i)

C21_RemovedIndividually == [][C21_DismissStep]_vars

\* C22: a chat's message sequence only grows by appending: a message once
\* appended to a chat that still exists is still present, at the same
\* position, whenever that chat is the current chat (switching away from a
\* chat and back, or re-selecting it from the history, loses no message).
C22_NoMessageLost ==
    currentChat # NoChat
        => /\ Len(chatLog[currentChat.id]) <= Len(currentChat.messages)
           /\ \A i \in 1..Len(chatLog[currentChat.id]) :
                  currentChat.messages[i] = chatLog[currentChat.id][i]

\* C23: message identifiers are unique: in every reachable state the messages
\* of a chat's message list have pairwise distinct ids, at every timing of
\* the clock (a user message and its assistant reply, or two consecutive
\* messages, created within the same millisecond included).
C23_MessageIdsDistinct ==
    \A chat \in AllChats :
        \A i, j \in 1..Len(chat.messages) :
            i # j => chat.messages[i].id # chat.messages[j].id

\* a step of the execution of a queued request: its closure starts, resumes
\* after an await, or runs to its end
ExecutionStep ==
    \E r \in Requests :
        /\ pc'[r] # pc[r]
        /\ \/ pc'[r] \in {"attach", "search", "model"}
           \/ pc[r] = "model"

\* C24: the message list of the current chat and the loading and error
\* fields of the chat state change only as part of the execution of a queued
\* request: no step of the chat input form, of a caller of sendMessage or of
\* the length validation before the enqueue changes them.
C24_MutationStep ==
    \/ /\ currentChat'.id = currentChat.id
       /\ Len(currentChat'.messages) > Len(currentChat.messages)
    \/ isLoading' # isLoading
    \/ error' # error

C24_OnlyQueueMutates == [][C24_MutationStep => ExecutionStep]_vars

\* C25: when a request submitted with webSearch = true executes, the search
\* collaborator has been queried before the model collaborator is invoked,
\* and whenever the lookup returned at least one result the first turn sent to
\* the model is the synthetic search-context message.
C25_SearchedBeforeModel ==
    \A r \in Requests :
        (pc[r] = "model" /\ options[r].webSearch)
        => /\ \E c \in 1..MaxSearches : calls[c].state # "none"
           /\ Len(WebSearchResults(Cur, r)) > 0
                  => sent[r] = prepareContext(submitted[r],
                                              WebSearchResults(Cur, r))
                     /\ Len(sent[r]) = 2

\* C26: the assistant reply of a request is appended to the chat that
\* received the user message of that request, also when the current chat is
\* changed while the model call of the request is in flight: a chat that was
\* given the reply of a request was given its user message.
C26_ReplyInChatOfRequest ==
    \A id \in 0..MaxClock, r \in 1..Len(submitted) :
        HasReply(chatLog[id], r) => HasUserMessage(chatLog[id], r)

\* C27: a lookup whose collaborator call fails (network error or a response
\* that is not a success) is not stored in the search cache, so that the next
\* search of the query calls the collaborator again: when the request of a
\* search call settles with a failure, the cache entry of its query is what it
\* was, or is removed.
C27_FailedSettleStep ==
    \A c \in 1..MaxSearches :
        (/\ calls[c].state = "fetching"
         /\ calls'[c].state = "done"
         /\ answered'[calls[c].query].failed)
        => cache'[calls[c].query] \in {cache[calls[c].query], NoEntry}

C27_FailureNotCached == [][C27_FailedSettleStep]_vars

\* C28: two overlapping search calls of one query (the second issued before
\* the first has resolved) cause one collaborator call only: no two calls of
\* one query have a request to the collaborator in flight together.
C28_OneRequestPerQuery ==
    \A c, d \in 1..MaxSearches :
        (c # d /\ calls[c].query = calls[d].query)
        => ~(calls[c].state = "fetching" /\ calls[d].state = "fetching")

\* C29: the promise returned by ChatService.sendMessage resolves only after
\* the request has settled (its assistant message appended or its error
\* surfaced), so that a caller that awaits it goes on only when the processing
\* of the request has finished: a fulfilled promise belongs to a request that
\* was rejected for its length or whose closure has run to its end.
C29_ResolvedOnlyWhenSettled ==
    \A r \in Requests :
        sendPromise[r] = "fulfilled"
            => pc[r] \in {"rejected", "settled", "threw", "finished", "aborted"}

\* C30: after a request completes successfully the error field of the chat
\* state is null: an error set by an earlier failed request or by a rejected
\* over-length submission does not persist past a later successful send.
C30_SuccessStep ==
    \A r \in Requests :
        (pc[r] = "model" /\ pc'[r] = "settled" /\ r \notin failed')
            => error' = NoError

C30_ErrorClearedOnSuccess == [][C30_SuccessStep]_vars

====
